---- MODULE Spec2Model ----
(***************************************************************************)
(* The Midnight dice game server: per-room game state, the turn / round    *)
(* state machine and the socket handlers around it.                        *)
(*                                                                         *)
(* The repository holds three versions of the server:                      *)
(*   "memory"  - rooms kept in a process-local object   (part_001 42-601)  *)
(*   "adapter" - Redis store + Socket.IO Redis adapter  (part_002 1-969)   *)
(*   "redis"   - Redis store                            (part_002 970-1759)*)
(* The variable `variant` fixes which one a behaviour runs.                *)
(***************************************************************************)
EXTENDS Integers, Sequences, FiniteSets, TLC

(***************************************************************************)
(* Bounds of the model.                                                    *)
(***************************************************************************)
\* rollDice is accepted only while rollCount is below this cap (Spec, SpecTurn).
MaxRolls == 1
TurnMaxRolls == 2
\* endTurn is taken only while the caller's cumulative score stays within this cap.
MaxScore == 6
TurnMaxScore == 0
\* setTimeout callbacks of rollDice that may be pending at a time.
MaxTimers == 1

(***************************************************************************)
(* Program constants and identifiers.                                      *)
(***************************************************************************)
NumDice == 6
MAX_RETRIES == 5

Variants == {"memory", "adapter", "redis"}
Conns == {"a", "b", "c"}
Rooms == {"r1", "r2"}

\* currentPlayer / roundWinner: null.
NoPlayer == "null"
\* socket.data.roomId: undefined.
NoRoom == "undefined"
\* redis.get(...) === null, rooms[roomId] === undefined.
NoState == [missing |-> TRUE]
\* A stored string that JSON.parse rejects.
Unparseable == [unparseable |-> TRUE]
\* No payload emitted.
NoEmit == [nothing |-> TRUE]

\* The name a connection sends with joinRoom (blank, padded, plain).
NameSent(c) == CASE c = "a" -> "Ann" [] c = "b" -> "  " [] OTHER -> " Cy "

(***************************************************************************)
(* JavaScript arrays (0-based) and objects (insertion-ordered string keys).*)
(***************************************************************************)
At(seq, i) == seq[i + 1]

\* Array.prototype.indexOf: first 0-based position, or -1.
IndexOf(seq, x) ==
  IF \E i \in 1..Len(seq) : seq[i] = x
    THEN (CHOOSE i \in 1..Len(seq) : seq[i] = x /\ \A j \in 1..(i - 1) : seq[j] # x) - 1
    ELSE -1

Includes(seq, x) == \E i \in 1..Len(seq) : seq[i] = x

\* Array.prototype.filter((id) => id !== x)
FilterOut(seq, x) == SelectSeq(seq, LAMBDA e : e # x)

\* splice(i, 1) at a 0-based index.
SpliceOne(seq, i) == [j \in 1..(Len(seq) - 1) |-> IF j <= i THEN seq[j] ELSE seq[j + 1]]

\* An object keyed by socket id is a function on its key set. The order of its
\* keys (insertion order in JavaScript) is not part of the state: Keys and Entries
\* list them in the fixed order IdOrder.
IdOrder == <<"a", "b", "c">>
EmptyObject == [x \in {} |-> 0]
Has(m, key) == key \in DOMAIN m
Get(m, key) == m[key]
Put(m, key, val) == [x \in (DOMAIN m) \cup {key} |-> IF x = key THEN val ELSE m[x]]
Del(m, key) == [x \in (DOMAIN m) \ {key} |-> m[x]]
Size(m) == Cardinality(DOMAIN m)
\* Object.keys
Keys(m) == SelectSeq(IdOrder, LAMBDA x : x \in DOMAIN m)
\* Object.entries
Entries(m) == [i \in 1..Len(Keys(m)) |-> [k |-> Keys(m)[i], v |-> m[Keys(m)[i]]]]

DiceIdx == 1..NumDice

(***************************************************************************)
(* Game state management: the pure helpers.                                *)
(***************************************************************************)
createInitialGameState ==
  [ players                |-> EmptyObject,
    dice                   |-> [i \in DiceIdx |-> 0],
    keptDice               |-> [i \in DiceIdx |-> FALSE],
    rollCount              |-> 0,
    currentPlayer          |-> NoPlayer,
    scores                 |-> EmptyObject,
    roundScores            |-> EmptyObject,
    turnScore              |-> 0,
    mustKeepDie            |-> FALSE,
    isRolling              |-> FALSE,
    playerOrder            |-> <<>>,
    playersPlayedThisRound |-> <<>>,
    roundEnded             |-> FALSE,
    roundWinner            |-> NoPlayer ]

NextIn_noStep(ids, current) ==
  LET currentPlayerIndex == IndexOf(ids, current)
  IN  IF currentPlayerIndex = -1
        THEN At(ids, 0)
        ELSE At(ids, currentPlayerIndex % Len(ids))
\* The id after currentPlayer in a list, the first one when currentPlayer is not in it.
NextIn(ids, current) ==
  LET currentPlayerIndex == IndexOf(ids, current)
  IN  IF currentPlayerIndex = -1
        THEN At(ids, 0)
        ELSE At(ids, (currentPlayerIndex + 1) % Len(ids))

getNextPlayer(s) ==
  IF Len(s.playerOrder) > 0
    THEN NextIn(s.playerOrder, s.currentPlayer)
    ELSE IF Len(Keys(s.players)) = 0
           THEN NoPlayer
           ELSE NextIn(Keys(s.players), s.currentPlayer)

resetTurnState_diceLeft(s) ==
  [s EXCEPT !.keptDice = [i \in DiceIdx |-> FALSE],
            !.rollCount = 0,
            !.turnScore = 0,
            !.mustKeepDie = FALSE]
resetTurnState_flagLeft(s) ==
  [s EXCEPT !.dice = [i \in DiceIdx |-> 0],
            !.keptDice = [i \in DiceIdx |-> FALSE],
            !.rollCount = 0,
            !.turnScore = 0]
resetTurnState(s) ==
  [s EXCEPT !.dice = [i \in DiceIdx |-> 0],
            !.keptDice = [i \in DiceIdx |-> FALSE],
            !.rollCount = 0,
            !.turnScore = 0,
            !.mustKeepDie = FALSE]

checkRoundEnd_strict(s) ==
  Cardinality({s.playersPlayedThisRound[i] : i \in 1..Len(s.playersPlayedThisRound)})
    > Size(s.players)
\* new Set(playersPlayedThisRound).size >= Object.keys(players).length
checkRoundEnd(s) ==
  Cardinality({s.playersPlayedThisRound[i] : i \in 1..Len(s.playersPlayedThisRound)})
    >= Size(s.players)

RECURSIVE WinnerScan_lastTakesAll(_, _)
WinnerScan_lastTakesAll(entries, n) ==
  IF n = 0
    THEN [highestScore |-> -1, winners |-> <<>>]
    ELSE LET acc == WinnerScan_lastTakesAll(entries, n - 1)
             e == entries[n]
         IN  IF e.v >= acc.highestScore
               THEN [highestScore |-> e.v, winners |-> <<e.k>>]
               ELSE acc
\* The forEach of determineRoundWinner after the first n entries: <<highestScore, winners>>.
RECURSIVE WinnerScan(_, _)
WinnerScan(entries, n) ==
  IF n = 0
    THEN [highestScore |-> -1, winners |-> <<>>]
    ELSE LET acc == WinnerScan(entries, n - 1)
             e == entries[n]
         IN  IF e.v > acc.highestScore
               THEN [highestScore |-> e.v, winners |-> <<e.k>>]
               ELSE IF e.v = acc.highestScore
                      THEN [acc EXCEPT !.winners = Append(acc.winners, e.k)]
                      ELSE acc

\* determineRoundWinner on the entries of roundScores in the order given.
winnerOf(entries) ==
  LET winners == WinnerScan(entries, Len(entries)).winners
  IN  IF Len(winners) = 1 THEN winners[1] ELSE NoPlayer

determineRoundWinner(s) == winnerOf(Entries(s.roundScores))

startNewRound_roundStaysEnded(s) ==
  resetTurnState([s EXCEPT !.playersPlayedThisRound = <<>>,
                           !.roundScores = EmptyObject,
                           !.scores = [x \in DOMAIN s.scores |-> 0],
                           !.currentPlayer =
                              IF Len(s.playerOrder) > 0 THEN s.playerOrder[1] ELSE NoPlayer])
startNewRound_winnerNotMoved(s) ==
  resetTurnState([s EXCEPT !.roundEnded = FALSE,
                           !.playersPlayedThisRound = <<>>,
                           !.roundScores = EmptyObject,
                           !.scores = [x \in DOMAIN s.scores |-> 0],
                           !.currentPlayer =
                              IF s.roundWinner # NoPlayer /\ Has(s.players, s.roundWinner)
                                THEN s.roundWinner
                                ELSE IF Len(s.playerOrder) > 0 THEN s.playerOrder[1]
                                     ELSE NoPlayer])
\* startNewRound minus its store access.
startNewRound(s) ==
  LET s1 == [s EXCEPT !.roundEnded = FALSE,
                      !.playersPlayedThisRound = <<>>,
                      !.roundScores = EmptyObject,
                      !.scores = [x \in DOMAIN s.scores |-> 0]]
      winnerIndex == IndexOf(s1.playerOrder, s1.roundWinner)
      s2 == IF s1.roundWinner # NoPlayer /\ Has(s1.players, s1.roundWinner)
              THEN [s1 EXCEPT
                      !.playerOrder =
                         IF winnerIndex # -1
                           THEN <<s1.roundWinner>> \o SpliceOne(s1.playerOrder, winnerIndex)
                           ELSE s1.playerOrder,
                      !.currentPlayer = s1.roundWinner]
              ELSE [s1 EXCEPT
                      !.currentPlayer =
                         IF Len(s1.playerOrder) > 0 THEN s1.playerOrder[1] ELSE NoPlayer]
  IN  resetTurnState(s2)

\* The scoring logic of the endTurn handler.
hasOne(s) == \E i \in DiceIdx : s.keptDice[i] /\ s.dice[i] = 1
hasFour(s) == \E i \in DiceIdx : s.keptDice[i] /\ s.dice[i] = 4

RECURSIVE ScoreLoop(_, _)
ScoreLoop(s, n) ==
  IF n = 0
    THEN 0
    ELSE ScoreLoop(s, n - 1)
           + (IF s.keptDice[n] /\ s.dice[n] # 1 /\ s.dice[n] # 4 THEN s.dice[n] ELSE 0)

endTurnScore(s) == IF hasOne(s) /\ hasFour(s) THEN ScoreLoop(s, NumDice) ELSE 0

\* calculateTurnScore of the client: what the room page shows as the turn's score.
NoScore == -1
RECURSIVE OtherDiceLoop(_, _, _)
\* The loop over dice[0..n-1]: <<score, foundOne, foundFour>>.
OtherDiceLoop(dice, keptDice, n) ==
  IF n = 0
    THEN [score |-> 0, foundOne |-> FALSE, foundFour |-> FALSE]
    ELSE LET acc == OtherDiceLoop(dice, keptDice, n - 1)
         IN  IF ~keptDice[n] THEN acc
             ELSE IF dice[n] = 1 /\ ~acc.foundOne THEN [acc EXCEPT !.foundOne = TRUE]
             ELSE IF dice[n] = 4 /\ ~acc.foundFour THEN [acc EXCEPT !.foundFour = TRUE]
             ELSE [acc EXCEPT !.score = @ + dice[n]]

calculateTurnScore(dice, keptDice) ==
  LET hasOneKept == \E i \in DiceIdx : keptDice[i] /\ dice[i] = 1
      hasFourKept == \E i \in DiceIdx : keptDice[i] /\ dice[i] = 4
  IN  IF ~hasOneKept \/ ~hasFourKept
        THEN NoScore
        ELSE OtherDiceLoop(dice, keptDice, NumDice).score

\* playerName?.trim() ? playerName.trim() : `Player_${socket.id.substring(0, 4)}`
Trim(name) == CASE name = " Cy " -> "Cy" [] name = "  " -> "" [] OTHER -> name
safePlayerName(c, name) ==
  IF Trim(name) # "" THEN Trim(name) ELSE "Player_" \o c

(***************************************************************************)
(* State.                                                                  *)
(***************************************************************************)
VARIABLES
  variant,   \* which server version runs
  store,     \* room id -> persisted GameState (Redis key room:<id>, or rooms[id])
  roomIds,   \* room ids /api/create-room has generated so far
  sock,      \* connection -> [open, roomId (socket.data.roomId), rooms (socket.join)]
  timers,    \* connection -> room -> pending setTimeout callbacks of rollDice
  ev,        \* what the last handler run did: its writes and its emits
  hist,      \* history, per room: the dice the latest committed roll rolled, and
             \* whether one of them has been kept since
  held       \* connection -> what its keepDice or joinRoom, suspended at an await
             \* between its read and its save, holds in `roomState`

vars == <<variant, store, roomIds, sock, timers, ev, hist, held>>

\* No handler of the connection is suspended.
NoRead == [idle |-> TRUE]

NoHist == [rolledNow |-> {}, keptNew |-> FALSE]
\* The history of the rooms whose turn state is fresh (or gone) is forgotten.
Settle(h, st) ==
  [r \in Rooms |-> IF st[r] = NoState \/ st[r] = Unparseable THEN NoHist
                   ELSE IF st[r].rollCount = 0 THEN NoHist ELSE h[r]]

Event_unsaved(op, c, r, outcome, wrote, bcast, reply, err) ==
  [ op |-> op, conn |-> c, room |-> r, outcome |-> outcome,
    wrote |-> FALSE, bcast |-> bcast, reply |-> reply, error |-> err ]
Event(op, c, r, outcome, wrote, bcast, reply, err) ==
  [ op |-> op, conn |-> c, room |-> r, outcome |-> outcome,
    wrote |-> wrote, bcast |-> bcast, reply |-> reply, error |-> err ]

\* A handler run that returns before any write or gameStateUpdate emit. A silent
\* return leaves no trace at all; an error emitted to the caller is recorded.
Ignored(op, c, r, why, err) ==
  /\ ev' = IF err = "" THEN ev
           ELSE Event(op, c, r, why, FALSE, NoEmit, NoEmit, err)
  /\ UNCHANGED <<variant, held, store, roomIds, sock, timers, hist>>

\* Pending setTimeout callbacks, all connections and rooms together.
RECURSIVE SumOver(_, _)
SumOver(f, S) ==
  IF S = {} THEN 0
  ELSE LET x == CHOOSE y \in S : TRUE IN f[x] + SumOver(f, S \ {x})
PendingTimers ==
  SumOver([p \in Conns \X Rooms |-> timers[p[1]][p[2]]], Conns \X Rooms)

\* getGameState: null for a missing key and for a record that does not parse.
getGameState(roomId) ==
  IF roomId = NoRoom THEN NoState
  ELSE IF store[roomId] = Unparseable THEN NoState
  ELSE store[roomId]

\* The message the Redis versions emit to the caller when its room has no record.
NotFoundMsg == IF variant = "memory" THEN "" ELSE "Game room data not found. Please rejoin."

Init ==
  /\ variant \in Variants
  /\ held = [c \in Conns |-> NoRead]
  /\ store = [r \in Rooms |-> NoState]
  /\ roomIds = {}
  /\ sock = [c \in Conns |-> [open |-> TRUE, roomId |-> NoRoom, rooms |-> {}]]
  /\ timers = [c \in Conns |-> [r \in Rooms |-> 0]]
  /\ ev = Event("init", NoPlayer, NoRoom, "none", FALSE, NoEmit, NoEmit, "")
  /\ hist = [r \in Rooms |-> NoHist]

\* The turn check every game handler makes: socket.id !== roomState.currentPlayer
notCurrentPlayer_never(c, roomState) == FALSE
notCurrentPlayer(c, roomState) == c # roomState.currentPlayer

(***************************************************************************)
(* POST /api/create-room                                                   *)
(***************************************************************************)
CreateRoom(roomId) ==
  /\ roomId \notin roomIds
  /\ roomIds' = roomIds \cup {roomId}
  /\ store' = [store EXCEPT ![roomId] = createInitialGameState]
  /\ ev' = Event("createRoom", NoPlayer, roomId, "accepted", TRUE, NoEmit, NoEmit, "")
  /\ hist' = Settle(hist, store')
  /\ UNCHANGED <<variant, held, sock, timers>>

(***************************************************************************)
(* socket.on("rollDice") up to the setTimeout call.                        *)
(***************************************************************************)
canRollAnyDice_always(s) == TRUE
canRollAnyDice(s) == \E i \in DiceIdx : ~s.keptDice[i]

RollDice(c, maxRolls) ==
  /\ sock[c].open
  /\ LET roomId == sock[c].roomId
         roomState == getGameState(roomId)
     IN  IF roomId = NoRoom THEN Ignored("rollDice", c, roomId, "noRoom", "")
         ELSE IF roomState = NoState
           THEN Ignored("rollDice", c, roomId, "noState", NotFoundMsg)
         ELSE IF notCurrentPlayer(c, roomState)
           THEN Ignored("rollDice", c, roomId, "notTurn", "")
         ELSE IF roomState.mustKeepDie
           THEN Ignored("rollDice", c, roomId, "mustKeep", "")
         ELSE IF ~canRollAnyDice(roomState) /\ roomState.rollCount > 0
           THEN Ignored("rollDice", c, roomId, "allKept", "")
         ELSE LET rolling == [roomState EXCEPT !.isRolling = TRUE]
              IN  /\ roomState.rollCount < maxRolls
                  /\ PendingTimers < MaxTimers
                  /\ store' = [store EXCEPT ![roomId] = rolling]
                  /\ timers' = [timers EXCEPT ![c][roomId] = @ + 1]
                  /\ ev' = Event("rollDice", c, roomId, "accepted", TRUE,
                                 rolling, NoEmit, "")
                  /\ UNCHANGED <<variant, held, roomIds, sock, hist>>

(***************************************************************************)
(* The setTimeout callback of rollDice; `faces` is what Math.random gives  *)
(* for each of the six dice.                                               *)
(***************************************************************************)
rolled_offByOne(s, faces) ==
  [s EXCEPT !.dice = [i \in DiceIdx |-> IF ~s.keptDice[i] THEN faces[i] + 1 ELSE s.dice[i]],
            !.rollCount = @ + 1,
            !.mustKeepDie = TRUE,
            !.isRolling = FALSE]
rolled_all(s, faces) ==
  [s EXCEPT !.dice = [i \in DiceIdx |-> faces[i]],
            !.rollCount = @ + 1,
            !.mustKeepDie = TRUE,
            !.isRolling = FALSE]
rolled(s, faces) ==
  [s EXCEPT !.dice = [i \in DiceIdx |-> IF ~s.keptDice[i] THEN faces[i] ELSE s.dice[i]],
            !.rollCount = @ + 1,
            !.mustKeepDie = TRUE,
            !.isRolling = FALSE]

\* The re-check after the delay (the in-memory version has none).
rollCancelled(c, currentState) ==
  /\ variant # "memory"
  /\ \/ currentState = NoState
     \/ currentState.currentPlayer # c
     \/ ~currentState.isRolling

RollComplete(c, roomId, faces) ==
  /\ timers[c][roomId] > 0
  /\ timers' = [timers EXCEPT ![c][roomId] = @ - 1]
  /\ LET currentState == getGameState(roomId)
     IN  IF rollCancelled(c, currentState)
           THEN /\ ev' = Event("rollComplete", c, roomId, "cancelled", FALSE,
                               NoEmit, NoEmit, "")
                /\ UNCHANGED <<store, hist>>
           ELSE /\ store' = [store EXCEPT ![roomId] = rolled(currentState, faces)]
                /\ ev' = Event("rollComplete", c, roomId, "accepted", TRUE,
                               rolled(currentState, faces), NoEmit, "")
                /\ hist' = [hist EXCEPT ![roomId] =
                              [rolledNow |-> {i \in DiceIdx : ~currentState.keptDice[i]},
                               keptNew |-> FALSE]]
  /\ UNCHANGED <<variant, held, roomIds, sock>>

(***************************************************************************)
(* socket.on("keepDice")                                                   *)
(***************************************************************************)
toggled_only(s, index) == [s EXCEPT !.keptDice[index + 1] = ~s.keptDice[index + 1]]
toggled(s, index) ==
  LET wasKept == s.keptDice[index + 1]
      s1 == [s EXCEPT !.keptDice[index + 1] = ~wasKept]
      anyDieKept == \E i \in DiceIdx : s1.keptDice[i]
  IN  IF s1.keptDice[index + 1]
        THEN [s1 EXCEPT !.mustKeepDie = FALSE]
        ELSE IF ~anyDieKept THEN [s1 EXCEPT !.mustKeepDie = TRUE] ELSE s1

\* The checks before the toggle: no roll yet, index out of range, unrolled die.
keepRefused_rangeOnly(roomState, index) == index < 0 \/ index >= 6
keepRefused(roomState, index) ==
  \/ roomState.rollCount = 0
  \/ index < 0 \/ index >= 6
  \/ roomState.dice[index + 1] = 0

KeepDice(c, index) ==
  /\ sock[c].open
  /\ LET roomId == sock[c].roomId
         roomState == getGameState(roomId)
     IN  IF roomId = NoRoom THEN Ignored("keepDice", c, roomId, "noRoom", "")
         ELSE IF roomState = NoState
           THEN Ignored("keepDice", c, roomId, "noState", NotFoundMsg)
         ELSE IF notCurrentPlayer(c, roomState)
           THEN Ignored("keepDice", c, roomId, "notTurn", "")
         ELSE IF keepRefused(roomState, index)
           THEN Ignored("keepDice", c, roomId, "refused", "")
         ELSE /\ store' = [store EXCEPT ![roomId] = toggled(roomState, index)]
              /\ ev' = Event("keepDice", c, roomId, "accepted", TRUE,
                             toggled(roomState, index), NoEmit, "")
              /\ hist' = [hist EXCEPT ![roomId].keptNew =
                            @ \/ (~roomState.keptDice[index + 1]
                                    /\ (index + 1) \in hist[roomId].rolledNow)]
              /\ UNCHANGED <<variant, held, roomIds, sock, timers>>

\* keepDice as the store sees it: the read (getGameState resolves; the checks
\* and the toggle run on what was read) and, later, the save of that object.
\* What the save writes: the record read, toggled; not the record now stored.
written_current(roomState, stored, index) ==
  IF stored = NoState THEN toggled(roomState, index) ELSE toggled(stored, index)
written(roomState, stored, index) == toggled(roomState, index)

KeepDiceRead(c, index) ==
  /\ sock[c].open
  /\ held[c] = NoRead
  /\ LET roomId == sock[c].roomId
         roomState == getGameState(roomId)
     IN  IF roomId = NoRoom THEN Ignored("keepDice", c, roomId, "noRoom", "")
         ELSE IF roomState = NoState
           THEN Ignored("keepDice", c, roomId, "noState", NotFoundMsg)
         ELSE IF notCurrentPlayer(c, roomState)
           THEN Ignored("keepDice", c, roomId, "notTurn", "")
         ELSE IF keepRefused(roomState, index)
           THEN Ignored("keepDice", c, roomId, "refused", "")
         ELSE /\ held' = [held EXCEPT ![c] = [op |-> "keepDice", roomId |-> roomId,
                                              roomState |-> roomState, index |-> index]]
              /\ UNCHANGED <<variant, store, roomIds, sock, timers, ev, hist>>

KeepDiceWrite(c) ==
  /\ held[c] # NoRead
  /\ held[c].op = "keepDice"
  /\ LET roomId == held[c].roomId
         roomState == held[c].roomState
         index == held[c].index
         saved == written(roomState, store[roomId], index)
     IN  /\ store' = [store EXCEPT ![roomId] = saved]
         /\ ev' = Event("keepDice", c, roomId, "accepted", TRUE, saved, NoEmit, "")
         /\ hist' = [hist EXCEPT ![roomId].keptNew =
                       @ \/ (~roomState.keptDice[index + 1]
                               /\ (index + 1) \in hist[roomId].rolledNow)]
  /\ held' = [held EXCEPT ![c] = NoRead]
  /\ UNCHANGED <<variant, roomIds, sock, timers>>

(***************************************************************************)
(* socket.on("joinRoom")                                                   *)
(***************************************************************************)
\* How often each version re-fetches a missing room before giving up.
Retries == CASE variant = "adapter" -> MAX_RETRIES [] variant = "redis" -> 1 [] OTHER -> 0

\* The initial fetch and the retry loop: stops at the first fetch that finds a record.
RECURSIVE fetchWithRetry(_, _)
fetchWithRetry(roomId, retriesLeft) ==
  IF getGameState(roomId) # NoState \/ retriesLeft = 0
    THEN getGameState(roomId)
    ELSE fetchWithRetry(roomId, retriesLeft - 1)

joined_newTurn(s, c, playerName) ==
  resetTurnState(
    [s EXCEPT
       !.players = Put(@, c, [id |-> c, name |-> safePlayerName(c, playerName)]),
       !.scores = IF Has(@, c) THEN @ ELSE Put(@, c, 0),
       !.roundScores = IF Has(@, c) THEN @ ELSE Put(@, c, 0),
       !.playerOrder = IF Includes(@, c) THEN @ ELSE Append(@, c),
       !.currentPlayer = IF @ = NoPlayer THEN c ELSE @])
joined_fresh(s, c, playerName) ==
  LET s1 == [s EXCEPT
               !.players = Put(@, c, [id |-> c, name |-> safePlayerName(c, playerName)]),
               !.scores = Put(@, c, 0),
               !.roundScores = Put(@, c, 0),
               !.playerOrder = IF Includes(@, c) THEN @ ELSE Append(@, c)]
  IN  IF s1.currentPlayer = NoPlayer
        THEN resetTurnState([s1 EXCEPT !.currentPlayer = c])
        ELSE s1
\* The join proper: player entry, scores, order, first turn.
joined(s, c, playerName) ==
  LET s1 == [s EXCEPT
               !.players = Put(@, c, [id |-> c, name |-> safePlayerName(c, playerName)]),
               !.scores = IF Has(@, c) THEN @ ELSE Put(@, c, 0),
               !.roundScores = IF Has(@, c) THEN @ ELSE Put(@, c, 0),
               !.playerOrder = IF Includes(@, c) THEN @ ELSE Append(@, c)]
  IN  IF s1.currentPlayer = NoPlayer
        THEN resetTurnState([s1 EXCEPT !.currentPlayer = c])
        ELSE s1

JoinRoom(c, roomId, playerName) ==
  /\ sock[c].open
  /\ LET fetched == fetchWithRetry(roomId, Retries)
         \* the adapter version saves a fresh state for a room it could not find
         recovered == fetched = NoState /\ variant = "adapter"
         roomState == IF recovered THEN createInitialGameState ELSE fetched
     IN  IF fetched = NoState /\ ~recovered
           THEN /\ ev' = Event("joinRoom", c, roomId, "notFound", FALSE,
                               NoEmit, NoEmit, "Room not found")
                /\ UNCHANGED <<store, sock>>
           ELSE /\ store' = [store EXCEPT ![roomId] = joined(roomState, c, playerName)]
                /\ sock' = [sock EXCEPT ![c].roomId = roomId,
                                        ![c].rooms = @ \cup {roomId}]
                /\ ev' = Event("joinRoom", c, roomId,
                               IF recovered THEN "recovered" ELSE "accepted", TRUE,
                               joined(roomState, c, playerName),
                               joined(roomState, c, playerName), "")
  /\ hist' = Settle(hist, store')
  /\ UNCHANGED <<variant, held, roomIds, timers>>

\* joinRoom as the store sees it: the fetch (with its retries, and the adapter
\* version's emergency save), and later the save of the record fetched with the
\* player added; socket.data.roomId is set after that save.
JoinRoomRead(c, roomId, playerName) ==
  /\ sock[c].open
  /\ held[c] = NoRead
  /\ LET fetched == fetchWithRetry(roomId, Retries)
         recovered == fetched = NoState /\ variant = "adapter"
         roomState == IF recovered THEN createInitialGameState ELSE fetched
     IN  IF fetched = NoState /\ ~recovered
           THEN /\ ev' = Event("joinRoom", c, roomId, "notFound", FALSE,
                               NoEmit, NoEmit, "Room not found")
                /\ UNCHANGED <<store, held>>
           ELSE /\ held' = [held EXCEPT ![c] = [op |-> "joinRoom", roomId |-> roomId,
                                                roomState |-> roomState,
                                                playerName |-> playerName]]
                /\ IF recovered
                     THEN /\ store' = [store EXCEPT ![roomId] = createInitialGameState]
                          /\ ev' = Event("joinRoom", c, roomId, "recovering", TRUE,
                                         NoEmit, NoEmit, "")
                     ELSE UNCHANGED <<store, ev>>
  /\ hist' = Settle(hist, store')
  /\ UNCHANGED <<variant, roomIds, sock, timers>>

JoinRoomWrite(c) ==
  /\ held[c] # NoRead
  /\ held[c].op = "joinRoom"
  /\ LET roomId == held[c].roomId
         saved == joined(held[c].roomState, c, held[c].playerName)
     IN  /\ store' = [store EXCEPT ![roomId] = saved]
         /\ sock' = [sock EXCEPT ![c].roomId = roomId,
                                 ![c].rooms = IF sock[c].open THEN @ \cup {roomId} ELSE @]
         /\ ev' = Event("joinRoom", c, roomId, "accepted", TRUE, saved, saved, "")
  /\ held' = [held EXCEPT ![c] = NoRead]
  /\ hist' = Settle(hist, store')
  /\ UNCHANGED <<variant, roomIds, timers>>

(***************************************************************************)
(* socket.on("playAgain")                                                  *)
(***************************************************************************)
PlayAgain(c) ==
  /\ sock[c].open
  /\ LET roomId == sock[c].roomId
         roomState == getGameState(roomId)
     IN  IF roomId = NoRoom THEN Ignored("playAgain", c, roomId, "noRoom", "")
         ELSE IF roomState = NoState
           THEN Ignored("playAgain", c, roomId, "noState", NotFoundMsg)
         ELSE IF ~roomState.roundEnded
           THEN Ignored("playAgain", c, roomId, "roundNotEnded", "")
         ELSE /\ store' = [store EXCEPT ![roomId] = startNewRound(roomState)]
              /\ ev' = Event("playAgain", c, roomId, "accepted", TRUE,
                             startNewRound(roomState), NoEmit, "")
              /\ hist' = Settle(hist, store')
              /\ UNCHANGED <<variant, held, roomIds, sock, timers>>

(***************************************************************************)
(* socket.on("endTurn")                                                    *)
(***************************************************************************)
scored_playedTwice(s, c) ==
  LET turnScore == endTurnScore(s)
  IN  [s EXCEPT
         !.scores = Put(@, c, (IF Has(@, c) THEN Get(@, c) ELSE 0) + turnScore),
         !.roundScores = Put(@, c, turnScore),
         !.playersPlayedThisRound = Append(@, c)]
\* Scoring and the played-this-round mark.
scored(s, c) ==
  LET turnScore == endTurnScore(s)
  IN  [s EXCEPT
         !.scores = Put(@, c, (IF Has(@, c) THEN Get(@, c) ELSE 0) + turnScore),
         !.roundScores = Put(@, c, turnScore),
         !.playersPlayedThisRound = IF Includes(@, c) THEN @ ELSE Append(@, c)]

\* The round-end branch.
roundOver(s) == [s EXCEPT !.roundEnded = TRUE, !.roundWinner = determineRoundWinner(s)]

\* The turn advance of the branch taken when the round goes on.
advanced(s) ==
  LET nextPlayer == getNextPlayer(s)
      s1 == [s EXCEPT !.currentPlayer = nextPlayer]
  IN  IF nextPlayer # NoPlayer THEN resetTurnState(s1) ELSE s1

\* The adapter version's handler ends after the round-end branch: when the round
\* goes on it returns without saving or emitting.
endTurnSaves(s) == checkRoundEnd(s) \/ variant # "adapter"

ended(s, c) ==
  LET s1 == scored(s, c)
  IN  IF checkRoundEnd(s1) THEN roundOver(s1) ELSE advanced(s1)

EndTurn(c, maxScore) ==
  /\ sock[c].open
  /\ LET roomId == sock[c].roomId
         roomState == getGameState(roomId)
     IN  IF roomId = NoRoom THEN Ignored("endTurn", c, roomId, "noRoom", "")
         ELSE IF roomState = NoState
           THEN Ignored("endTurn", c, roomId, "noState", NotFoundMsg)
         ELSE IF notCurrentPlayer(c, roomState)
           THEN Ignored("endTurn", c, roomId, "notTurn", "")
         ELSE /\ Get(scored(roomState, c).scores, c) <= maxScore
              /\ IF endTurnSaves(scored(roomState, c))
                   THEN /\ store' = [store EXCEPT ![roomId] = ended(roomState, c)]
                        /\ ev' = Event("endTurn", c, roomId, "accepted", TRUE,
                                       ended(roomState, c), NoEmit, "")
                   ELSE /\ ev' = Event("endTurn", c, roomId, "accepted", FALSE,
                                       NoEmit, NoEmit, "")
                        /\ UNCHANGED store
              /\ hist' = Settle(hist, store')
              /\ UNCHANGED <<variant, held, roomIds, sock, timers>>

(***************************************************************************)
(* socket.on("disconnect")                                                 *)
(***************************************************************************)
handedOver_toNobody(s, wasCurrentPlayer) ==
  IF wasCurrentPlayer THEN [s EXCEPT !.currentPlayer = NoPlayer] ELSE s
\* The turn hand-over when the leaving player held the turn.
handedOver(s, wasCurrentPlayer) ==
  IF wasCurrentPlayer
    THEN LET nextPlayer == getNextPlayer(s)
             s1 == [s EXCEPT !.currentPlayer = nextPlayer]
         IN  IF nextPlayer # NoPlayer THEN resetTurnState(s1) ELSE s1
    ELSE s

removed_orderKept(s, c) ==
  [s EXCEPT !.players = Del(@, c),
            !.scores = Del(@, c),
            !.roundScores = Del(@, c),
            !.playersPlayedThisRound = FilterOut(@, c)]
\* The player's data removed from the record.
removed(s, c) ==
  IF variant = "memory"
    THEN [s EXCEPT !.players = Del(@, c), !.scores = Del(@, c)]
    ELSE LET playedIndex == IndexOf(s.playersPlayedThisRound, c)
         IN  [s EXCEPT !.players = Del(@, c),
                       !.scores = Del(@, c),
                       !.roundScores = Del(@, c),
                       !.playerOrder = FilterOut(@, c),
                       !.playersPlayedThisRound =
                          IF playedIndex > -1 THEN SpliceOne(@, playedIndex) ELSE @]

left(s, c) == handedOver(removed(s, c), s.currentPlayer = c)

\* Object.keys(roomState.players).length > 0
playersRemain_always(s) == TRUE
playersRemain(s) == Size(s.players) > 0

Disconnect(c) ==
  /\ sock[c].open
  /\ sock' = [sock EXCEPT ![c].open = FALSE, ![c].rooms = {}]
  /\ LET roomId == sock[c].roomId
         roomState == getGameState(roomId)
     IN  IF roomId = NoRoom \/ roomState = NoState
           THEN /\ ev' = Event("disconnect", c, roomId, "noState", FALSE,
                               NoEmit, NoEmit, "")
                /\ UNCHANGED store
           ELSE IF variant = "memory" \/ playersRemain(left(roomState, c))
             THEN /\ store' = [store EXCEPT ![roomId] = left(roomState, c)]
                  /\ ev' = Event("disconnect", c, roomId, "accepted", TRUE,
                                 left(roomState, c), NoEmit, "")
             ELSE /\ store' = [store EXCEPT ![roomId] = NoState]
                  /\ ev' = Event("disconnect", c, roomId, "deleted", TRUE,
                                 NoEmit, NoEmit, "")
  /\ hist' = Settle(hist, store')
  /\ UNCHANGED <<variant, held, roomIds, timers>>

(***************************************************************************)
(* Inputs and the specifications.                                          *)
(*                                                                         *)
(* Spec: one room from its creation on, three connections joining, playing *)
(* and leaving; one roll outcome and three dice to keep.                   *)
(* SpecTurn: two players already sitting in a room; both roll outcomes,    *)
(* every keepDice index, up to TurnMaxRolls rolls a turn, nobody leaves.   *)
(***************************************************************************)
\* What Math.random may give the six dice on one roll.
RollA == <<1, 4, 6, 2, 3, 5>>
RollB == <<1, 1, 4, 4, 2, 6>>
\* The indexes clients send with keepDice.
KeepInputs == {-1, 0, 1, 2, 6}
TurnKeepInputs == -1..6

Next ==
  \/ CreateRoom("r1")
  \/ \E c \in Conns : sock[c].roomId = NoRoom /\ JoinRoom(c, "r1", NameSent(c))
  \/ \E c \in Conns : RollDice(c, MaxRolls)
  \/ \E c \in Conns : RollComplete(c, "r1", RollA)
  \/ \E c \in Conns, i \in KeepInputs : KeepDice(c, i)
  \/ \E c \in Conns : EndTurn(c, MaxScore)
  \/ \E c \in Conns : PlayAgain(c)
  \/ \E c \in Conns : Disconnect(c)

Spec == Init /\ [][Next]_vars

TurnConns == {"a", "b"}

\* r1 created, then joined by a and by b.
InitTurn ==
  /\ variant \in Variants
  /\ held = [c \in Conns |-> NoRead]
  /\ store = [r \in Rooms |->
                IF r = "r1"
                  THEN joined(joined(createInitialGameState, "a", NameSent("a")),
                              "b", NameSent("b"))
                  ELSE NoState]
  /\ roomIds = {"r1"}
  /\ sock = [c \in Conns |->
               IF c \in TurnConns
                 THEN [open |-> TRUE, roomId |-> "r1", rooms |-> {"r1"}]
                 ELSE [open |-> TRUE, roomId |-> NoRoom, rooms |-> {}]]
  /\ timers = [c \in Conns |-> [r \in Rooms |-> 0]]
  /\ ev = Event("init", NoPlayer, NoRoom, "none", FALSE, NoEmit, NoEmit, "")
  /\ hist = [r \in Rooms |-> NoHist]

NextTurn ==
  \/ RollDice("a", TurnMaxRolls)
  \/ \E c \in TurnConns, faces \in {RollA, RollB} : RollComplete(c, "r1", faces)
  \/ \E c \in TurnConns, i \in TurnKeepInputs : KeepDice(c, i)
  \/ \E c \in TurnConns : EndTurn(c, TurnMaxScore)
  \/ \E c \in TurnConns : PlayAgain(c)

SpecTurn == InitTurn /\ [][NextTurn]_vars

\* SpecRooms: two rooms and connections that may join either room, and join
\* again.  It starts where a first game has left r1: a joined alone, rolled RollA,
\* kept the first three dice and ended its turn, which ended the round 6 points
\* up; then b joined.  Nobody rolls here.
RoomConns == {"a", "b"}

afterFirstRound ==
  LET s0 == joined(createInitialGameState, "a", NameSent("a"))
      s1 == rolled([s0 EXCEPT !.isRolling = TRUE], RollA)
      s2 == toggled(toggled(toggled(s1, 0), 1), 2)
  IN  joined(ended(s2, "a"), "b", NameSent("b"))

InitRooms ==
  /\ variant \in Variants
  /\ held = [c \in Conns |-> NoRead]
  /\ store = [r \in Rooms |-> IF r = "r1" THEN afterFirstRound ELSE NoState]
  /\ roomIds = {"r1"}
  /\ sock = [c \in Conns |->
               IF c \in RoomConns
                 THEN [open |-> TRUE, roomId |-> "r1", rooms |-> {"r1"}]
                 ELSE [open |-> TRUE, roomId |-> NoRoom, rooms |-> {}]]
  /\ timers = [c \in Conns |-> [r \in Rooms |-> 0]]
  /\ ev = Event("joinRoom", "b", "r1", "accepted", TRUE,
                afterFirstRound, afterFirstRound, "")
  /\ hist = [r \in Rooms |-> IF r = "r1"
                                THEN [rolledNow |-> DiceIdx, keptNew |-> TRUE]
                                ELSE NoHist]

NextRooms ==
  \/ \E r \in Rooms : CreateRoom(r)
  \/ \E c \in RoomConns, r \in Rooms : JoinRoom(c, r, NameSent(c))
  \/ \E c \in RoomConns : EndTurn(c, MaxScore)
  \/ \E c \in RoomConns : PlayAgain(c)
  \/ \E c \in RoomConns : Disconnect(c)

SpecRooms == InitRooms /\ [][NextRooms]_vars

\* SpecHelpers: getNextPlayer and determineRoundWinner applied to room records
\* drawn from the value space of GameState: any playerOrder without repeats, any
\* currentPlayer, any set of players, any roundScores up to MaxRoundScore.
MaxRoundScore == 2

\* The arrangements of the ids of S in a list without repeats.
Orderings(S) ==
  {p \in [1..Cardinality(S) -> S] : \A i, j \in 1..Cardinality(S) : p[i] = p[j] => i = j}
PlayerOrders == UNION {Orderings(S) : S \in SUBSET Conns}
RoundScoreMaps == UNION {[S -> 0..MaxRoundScore] : S \in SUBSET Conns}

roomOf(playerIds, order, current, roundScores) ==
  [createInitialGameState EXCEPT
     !.players = [x \in playerIds |-> [id |-> x, name |-> safePlayerName(x, NameSent(x))]],
     !.scores = [x \in playerIds |-> 0],
     !.playerOrder = order,
     !.currentPlayer = current,
     !.roundScores = roundScores]

InitHelpers ==
  /\ variant \in Variants
  /\ held = [c \in Conns |-> NoRead]
  /\ \E playerIds \in SUBSET Conns, order \in PlayerOrders,
        current \in Conns \cup {NoPlayer}, roundScores \in RoundScoreMaps :
       /\ \/ roundScores = EmptyObject
          \/ /\ DOMAIN roundScores = playerIds
             /\ order = Keys(roundScores)
             /\ current = NoPlayer
       /\ store = [r \in Rooms |->
                     IF r = "r1" THEN roomOf(playerIds, order, current, roundScores)
                                 ELSE NoState]
  /\ roomIds = {"r1"}
  /\ sock = [c \in Conns |-> [open |-> TRUE, roomId |-> NoRoom, rooms |-> {}]]
  /\ timers = [c \in Conns |-> [r \in Rooms |-> 0]]
  /\ ev = Event("init", NoPlayer, NoRoom, "none", FALSE, NoEmit, NoEmit, "")
  /\ hist = [r \in Rooms |-> NoHist]

\* A call of getNextPlayer on the room's record; its result is the outcome.
GetNextPlayer(roomId) ==
  /\ store[roomId] # NoState
  /\ ev' = Event("getNextPlayer", NoPlayer, roomId, getNextPlayer(store[roomId]),
                 FALSE, NoEmit, NoEmit, "")
  /\ UNCHANGED <<variant, held, store, roomIds, sock, timers, hist>>

\* A call of determineRoundWinner on the room's record, Object.entries listing
\* roundScores in the order its keys were inserted; its result is the outcome.
DetermineRoundWinner(roomId, insertionOrder) ==
  /\ store[roomId] # NoState
  /\ LET roundScores == store[roomId].roundScores
         entries == [i \in 1..Len(insertionOrder) |->
                       [k |-> insertionOrder[i], v |-> roundScores[insertionOrder[i]]]]
     IN  ev' = Event("determineRoundWinner", NoPlayer, roomId, winnerOf(entries),
                     FALSE, NoEmit, NoEmit, "")
  /\ UNCHANGED <<variant, held, store, roomIds, sock, timers, hist>>

NextHelpers ==
  \/ GetNextPlayer("r1")
  \/ \E insertionOrder \in Orderings(DOMAIN store["r1"].roundScores) :
       DetermineRoundWinner("r1", insertionOrder)

SpecHelpers == InitHelpers /\ [][NextHelpers]_vars

\* SpecFaults: the two store-backed versions with a record in the store that
\* cannot be read back.  r1's record does not parse (a had joined r1 before);
\* r2 is a sound, empty room.  b and c join either room once and play.
FaultVariants == {"adapter", "redis"}

InitFaults ==
  /\ variant \in FaultVariants
  /\ held = [c \in Conns |-> NoRead]
  /\ store = [r \in Rooms |-> IF r = "r1" THEN Unparseable ELSE createInitialGameState]
  /\ roomIds = {"r1", "r2"}
  /\ sock = [c \in Conns |->
               IF c = "a"
                 THEN [open |-> TRUE, roomId |-> "r1", rooms |-> {"r1"}]
                 ELSE [open |-> TRUE, roomId |-> NoRoom, rooms |-> {}]]
  /\ timers = [c \in Conns |-> [r \in Rooms |-> 0]]
  /\ ev = Event("init", NoPlayer, NoRoom, "none", FALSE, NoEmit, NoEmit, "")
  /\ hist = [r \in Rooms |-> NoHist]

NextFaults ==
  \/ \E c \in Conns, r \in Rooms : sock[c].roomId = NoRoom /\ JoinRoom(c, r, NameSent(c))
  \/ \E c \in Conns : RollDice(c, MaxRolls)
  \/ \E c \in Conns, r \in Rooms : RollComplete(c, r, RollA)
  \/ \E c \in Conns, i \in KeepInputs : KeepDice(c, i)
  \/ \E c \in Conns : EndTurn(c, MaxScore)
  \/ \E c \in Conns : PlayAgain(c)
  \/ \E c \in Conns : Disconnect(c)

SpecFaults == InitFaults /\ [][NextFaults]_vars

\* SpecRace: the two store-backed versions with keepDice in its two steps, so
\* that other handlers run between its read and its save.  a and b sit in r1.
InitRace ==
  /\ variant \in FaultVariants
  /\ held = [c \in Conns |-> NoRead]
  /\ store = [r \in Rooms |->
                IF r = "r1"
                  THEN joined(joined(createInitialGameState, "a", NameSent("a")),
                              "b", NameSent("b"))
                  ELSE NoState]
  /\ roomIds = {"r1"}
  /\ sock = [c \in Conns |->
               IF c \in TurnConns
                 THEN [open |-> TRUE, roomId |-> "r1", rooms |-> {"r1"}]
                 ELSE [open |-> TRUE, roomId |-> NoRoom, rooms |-> {}]]
  /\ timers = [c \in Conns |-> [r \in Rooms |-> 0]]
  /\ ev = Event("init", NoPlayer, NoRoom, "none", FALSE, NoEmit, NoEmit, "")
  /\ hist = [r \in Rooms |-> NoHist]

\* The indexes sent with keepDice in SpecRace.
RaceKeepInputs == {-1, 0, 1}

NextRace ==
  \/ \E c \in TurnConns : RollDice(c, MaxRolls)
  \/ \E c \in TurnConns : RollComplete(c, "r1", RollA)
  \/ \E c \in TurnConns, i \in RaceKeepInputs : KeepDiceRead(c, i)
  \/ \E c \in TurnConns : KeepDiceWrite(c)
  \/ \E c \in TurnConns : EndTurn(c, MaxScore)
  \/ \E c \in TurnConns : PlayAgain(c)
  \/ \E c \in TurnConns : Disconnect(c)

SpecRace == InitRace /\ [][NextRace]_vars

\* SpecJoin: the two store-backed versions with joinRoom in its two steps.  r1
\* has been created; a and b join it once each, play and leave.
InitJoin ==
  /\ variant \in FaultVariants
  /\ held = [c \in Conns |-> NoRead]
  /\ store = [r \in Rooms |-> IF r = "r1" THEN createInitialGameState ELSE NoState]
  /\ roomIds = {"r1"}
  /\ sock = [c \in Conns |-> [open |-> TRUE, roomId |-> NoRoom, rooms |-> {}]]
  /\ timers = [c \in Conns |-> [r \in Rooms |-> 0]]
  /\ ev = Event("createRoom", NoPlayer, "r1", "accepted", TRUE, NoEmit, NoEmit, "")
  /\ hist = [r \in Rooms |-> NoHist]

NextJoin ==
  \/ \E c \in RoomConns :
       sock[c].roomId = NoRoom /\ JoinRoomRead(c, "r1", NameSent(c))
  \/ \E c \in RoomConns : JoinRoomWrite(c)
  \/ \E c \in RoomConns : EndTurn(c, MaxScore)
  \/ \E c \in RoomConns : PlayAgain(c)
  \/ \E c \in RoomConns : Disconnect(c)

SpecJoin == InitJoin /\ [][NextJoin]_vars

\* SpecProgress: one room whose membership is settled: the players have joined
\* r1 in some order and nobody joins or leaves.  They roll, end turns and start
\* new rounds; the player holding the turn keeps sending endTurn.
RECURSIVE seated(_, _)
seated(order, n) ==
  IF n = 0 THEN createInitialGameState
           ELSE joined(seated(order, n - 1), order[n], NameSent(order[n]))

InitProgress ==
  /\ variant \in Variants
  /\ held = [c \in Conns |-> NoRead]
  /\ \E order \in PlayerOrders \ {<<>>} :
       /\ store = [r \in Rooms |-> IF r = "r1" THEN seated(order, Len(order)) ELSE NoState]
       /\ sock = [c \in Conns |->
                    IF Includes(order, c)
                      THEN [open |-> TRUE, roomId |-> "r1", rooms |-> {"r1"}]
                      ELSE [open |-> TRUE, roomId |-> NoRoom, rooms |-> {}]]
  /\ roomIds = {"r1"}
  /\ timers = [c \in Conns |-> [r \in Rooms |-> 0]]
  /\ ev = Event("init", NoPlayer, NoRoom, "none", FALSE, NoEmit, NoEmit, "")
  /\ hist = [r \in Rooms |-> NoHist]

NextProgress ==
  \/ \E c \in Conns : RollDice(c, MaxRolls)
  \/ \E c \in Conns : RollComplete(c, "r1", RollA)
  \/ \E c \in Conns : EndTurn(c, TurnMaxScore)
  \/ \E c \in Conns : PlayAgain(c)

\* The player holding the turn sends endTurn.
HolderEndTurn ==
  \E c \in Conns :
    /\ sock[c].roomId # NoRoom
    /\ getGameState(sock[c].roomId) # NoState
    /\ getGameState(sock[c].roomId).currentPlayer = c
    /\ EndTurn(c, TurnMaxScore)

SpecProgress == InitProgress /\ [][NextProgress]_vars /\ WF_vars(HolderEndTurn)

(***************************************************************************)
(* Properties of Spec: turn order, end of turn, end of round.              *)
(***************************************************************************)

\* C1: rollDice, keepDice(index) and endTurn from a connection that is not the
\* currentPlayer of its room change nothing: the room records stay as they are,
\* nothing is written, no roll completion is scheduled and no snapshot is
\* broadcast; and every rollDice, keepDice or endTurn that did write or broadcast
\* came from the connection that held the turn.
C1_OutOfTurnIgnored ==
  [][/\ \A c \in Conns :
          LET roomId == sock[c].roomId
              roomState == getGameState(roomId)
          IN  (/\ sock[c].open
               /\ roomId # NoRoom
               /\ roomState # NoState
               /\ roomState.currentPlayer # c
               /\ \/ RollDice(c, MaxRolls)
                  \/ \E index \in KeepInputs : KeepDice(c, index)
                  \/ EndTurn(c, MaxScore))
              => (store' = store /\ timers' = timers /\ ev' = ev)
     /\ (/\ ev' # ev
         /\ ev'.op \in {"rollDice", "keepDice", "endTurn"}
         /\ (ev'.wrote \/ ev'.bcast # NoEmit))
        => store[ev'.room].currentPlayer = ev'.conn]_vars

\* A second player sits in r1 while the turn holder has rolled and kept a die:
\* the out-of-turn player's keepDice and endTurn would otherwise be served.
C1_Witness ==
  \E c \in Conns :
    /\ sock[c].open
    /\ sock[c].roomId = "r1"
    /\ store["r1"] # NoState
    /\ store["r1"].currentPlayer \notin {c, NoPlayer}
    /\ store["r1"].rollCount > 0
    /\ ~store["r1"].mustKeepDie

\* C2: an accepted endTurn from currentPlayer that does not end the round leaves
\* the persisted state with currentPlayer = the entry after the caller in
\* playerOrder (wrapping), dice all 0, keptDice all false, rollCount 0 and
\* mustKeepDie false, and broadcasts that state.
C2_EndTurnAdvances ==
  [][\A c \in Conns :
       LET roomId == sock[c].roomId
           roomState == getGameState(roomId)
           order == roomState.playerOrder
       IN  (/\ sock[c].open
            /\ roomId # NoRoom
            /\ roomState # NoState
            /\ roomState.currentPlayer = c
            /\ Len(order) > 0
            /\ EndTurn(c, MaxScore)
            /\ Cardinality({roomState.playersPlayedThisRound[i] :
                              i \in 1..Len(roomState.playersPlayedThisRound)} \cup {c})
                 < Cardinality(DOMAIN roomState.players))
           => /\ store'[roomId].currentPlayer
                   = order[((IndexOf(order, c) + 1) % Len(order)) + 1]
              /\ \A i \in DiceIdx : store'[roomId].dice[i] = 0
              /\ \A i \in DiceIdx : ~store'[roomId].keptDice[i]
              /\ store'[roomId].rollCount = 0
              /\ ~store'[roomId].mustKeepDie
              /\ ev'.wrote
              /\ ev'.bcast = store'[roomId]]_vars

\* C3: an accepted endTurn sets roundEnded exactly when the distinct played ids,
\* the caller included, are at least as many as the players now in the room; it
\* then sets roundWinner to determineRoundWinner's result and leaves currentPlayer
\* with the caller.  Otherwise this endTurn does not touch roundEnded.
C3_RoundEndsWhenAllPlayed ==
  [][\A c \in Conns :
       LET roomId == sock[c].roomId
           roomState == getGameState(roomId)
           played == {roomState.playersPlayedThisRound[i] :
                        i \in 1..Len(roomState.playersPlayedThisRound)} \cup {c}
       IN  (/\ sock[c].open
            /\ roomId # NoRoom
            /\ roomState # NoState
            /\ roomState.currentPlayer = c
            /\ EndTurn(c, MaxScore))
           => IF Cardinality(played) >= Cardinality(DOMAIN roomState.players)
                THEN /\ store'[roomId].roundEnded
                     /\ store'[roomId].roundWinner = determineRoundWinner(store'[roomId])
                     /\ store'[roomId].currentPlayer = c
                     /\ ev'.bcast = store'[roomId]
                ELSE store'[roomId].roundEnded = roomState.roundEnded]_vars

\* The endTurn of the last of at least two players has just ended the round.
C3_Witness ==
  /\ ev.op = "endTurn"
  /\ ev.wrote
  /\ store["r1"] # NoState
  /\ ev.bcast = store["r1"]
  /\ store["r1"].roundEnded
  /\ Size(store["r1"].players) >= 2
  /\ Len(store["r1"].playersPlayedThisRound) >= 2

\* C5: an accepted endTurn by p with turn score s leaves scores[p] = previous + s,
\* roundScores[p] = s, p exactly once in playersPlayedThisRound, and the scores
\* and roundScores of every other player as they were.
C5_EndTurnBooksScore ==
  [][\A p \in Conns :
       LET roomId == sock[p].roomId
           roomState == getGameState(roomId)
           s == endTurnScore(roomState)
           after == store'[roomId]
       IN  (/\ sock[p].open
            /\ roomId # NoRoom
            /\ roomState # NoState
            /\ roomState.currentPlayer = p
            /\ EndTurn(p, MaxScore))
           => /\ p \in DOMAIN after.scores
              /\ after.scores[p]
                   = (IF p \in DOMAIN roomState.scores THEN roomState.scores[p] ELSE 0) + s
              /\ p \in DOMAIN after.roundScores
              /\ after.roundScores[p] = s
              /\ Cardinality({i \in 1..Len(after.playersPlayedThisRound) :
                                after.playersPlayedThisRound[i] = p}) = 1
              /\ \A q \in Conns \ {p} :
                   /\ (q \in DOMAIN after.scores) = (q \in DOMAIN roomState.scores)
                   /\ q \in DOMAIN roomState.scores => after.scores[q] = roomState.scores[q]
                   /\ (q \in DOMAIN after.roundScores) = (q \in DOMAIN roomState.roundScores)
                   /\ q \in DOMAIN roomState.roundScores
                        => after.roundScores[q] = roomState.roundScores[q]]_vars

\* C8: the delayed roll completion commits nothing (no write, no broadcast) when
\* the record is missing, currentPlayer is not the connection that asked for the
\* roll, or isRolling is false.
C8_StaleRollDropped ==
  [][\A c \in Conns :
       LET currentState == getGameState("r1")
       IN  (/\ RollComplete(c, "r1", RollA)
            /\ \/ currentState = NoState
               \/ currentState.currentPlayer # c
               \/ ~currentState.isRolling)
           => (store' = store /\ ~ev'.wrote /\ ev'.bcast = NoEmit)]_vars

\* C14: joinRoom for a roomId with no stored record during the whole retry
\* window fails: "Room not found" goes to the joining connection only, the
\* connection is made a member of no room, no player is added and no snapshot
\* is sent.
C14_JoinMissingRoomFails ==
  [][\A c \in Conns :
       (/\ sock[c].open
        /\ store["r1"] = NoState
        /\ JoinRoom(c, "r1", NameSent(c)))
       => /\ store' = store
          /\ sock' = sock
          /\ ev'.op = "joinRoom" /\ ev'.conn = c
          /\ ev'.error = "Room not found"
          /\ ~ev'.wrote
          /\ ev'.bcast = NoEmit
          /\ ev'.reply = NoEmit]_vars

\* C15: once the disconnect of a joined connection c is processed, c is in none
\* of players, scores, roundScores, playerOrder and playersPlayedThisRound of
\* its room's record, and the other players' entries and the order of the ids
\* left in playerOrder are as before.
C15_DisconnectRemovesPlayer ==
  [][\A c \in Conns :
       LET roomId == sock[c].roomId
           before == getGameState(roomId)
           after == store'[roomId]
           others(m) == [x \in (DOMAIN m) \ {c} |-> m[x]]
       IN  (/\ sock[c].open
            /\ roomId # NoRoom
            /\ before # NoState
            /\ Disconnect(c)
            /\ after # NoState)
           => /\ c \notin DOMAIN after.players
              /\ c \notin DOMAIN after.scores
              /\ c \notin DOMAIN after.roundScores
              /\ \A i \in 1..Len(after.playerOrder) : after.playerOrder[i] # c
              /\ \A i \in 1..Len(after.playersPlayedThisRound) :
                   after.playersPlayedThisRound[i] # c
              /\ after.players = others(before.players)
              /\ after.scores = others(before.scores)
              /\ after.roundScores = others(before.roundScores)
              /\ after.playerOrder = SelectSeq(before.playerOrder, LAMBDA x : x # c)]_vars

\* C16: in the versions that keep the records in the store, when the leaving
\* connection was the last key of players the room's record is deleted and
\* nothing is broadcast; when a player remains the updated record is saved and
\* broadcast, and not deleted.
C16_LastPlayerDeletesRecord ==
  [][\A c \in Conns :
       LET roomId == sock[c].roomId
           before == getGameState(roomId)
       IN  (/\ variant # "memory"
            /\ sock[c].open
            /\ roomId # NoRoom
            /\ before # NoState
            /\ Disconnect(c))
           => IF (DOMAIN before.players) \ {c} = {}
                THEN /\ store'[roomId] = NoState
                     /\ ev'.bcast = NoEmit
                     /\ ev'.reply = NoEmit
                ELSE /\ store'[roomId] # NoState
                     /\ ev'.wrote
                     /\ ev'.bcast = store'[roomId]
                     /\ DOMAIN store'[roomId].players = (DOMAIN before.players) \ {c}]_vars

\* Two players had joined r1; both have left and the record is gone.
C16_Witness ==
  /\ variant # "memory"
  /\ ev.op = "disconnect"
  /\ ev.outcome = "deleted"
  /\ store["r1"] = NoState
  /\ Cardinality({c \in Conns : ~sock[c].open /\ sock[c].roomId = "r1"}) >= 2

\* C17: playAgain changes nothing (record unchanged, no broadcast) while
\* roundEnded is false; when roundEnded is true it starts a new round and
\* broadcasts a state in which roundEnded is false.
C17_PlayAgainOnlyAfterRoundEnd ==
  [][\A c \in Conns :
       LET roomId == sock[c].roomId
           roomState == getGameState(roomId)
       IN  (/\ sock[c].open
            /\ roomId # NoRoom
            /\ roomState # NoState
            /\ PlayAgain(c))
           => IF ~roomState.roundEnded
                THEN store' = store /\ timers' = timers /\ ev' = ev
                ELSE /\ ev'.op = "playAgain"
                     /\ ev'.wrote
                     /\ ev'.bcast = store'[roomId]
                     /\ ~ev'.bcast.roundEnded
                     /\ Len(ev'.bcast.playersPlayedThisRound) = 0
                     /\ ev'.bcast.rollCount = 0]_vars

\* A round among at least two players ended and playAgain has started the next.
C17_Witness ==
  /\ ev.op = "playAgain"
  /\ store["r1"] # NoState
  /\ ev.bcast = store["r1"]
  /\ ~store["r1"].roundEnded
  /\ Size(store["r1"].players) >= 2

\* C18: startNewRound gives roundEnded = false, playersPlayedThisRound and
\* roundScores empty, every score 0 and the turn state reset; if roundWinner is
\* set and still a key of players it becomes currentPlayer and the first entry
\* of playerOrder, the other entries keeping their order, none added, lost or
\* doubled; otherwise currentPlayer is the first entry of playerOrder, or null
\* when playerOrder is empty.  Checked on every record the store ever holds.
C18_StartNewRound ==
  \A r \in Rooms :
    store[r] # NoState =>
      LET s == store[r]
          t == startNewRound(s)
          winner == s.roundWinner
          rest(order) == SelectSeq(order, LAMBDA x : x # winner)
      IN  /\ ~t.roundEnded
          /\ t.playersPlayedThisRound = <<>>
          /\ DOMAIN t.roundScores = {}
          /\ DOMAIN t.scores = DOMAIN s.scores
          /\ \A x \in DOMAIN t.scores : t.scores[x] = 0
          /\ \A i \in DiceIdx : t.dice[i] = 0 /\ ~t.keptDice[i]
          /\ t.rollCount = 0
          /\ ~t.mustKeepDie
          /\ IF winner # NoPlayer /\ winner \in DOMAIN s.players
               THEN /\ t.currentPlayer = winner
                    /\ Len(t.playerOrder) = Len(s.playerOrder)
                    /\ Len(t.playerOrder) > 0
                    /\ t.playerOrder[1] = winner
                    /\ rest(t.playerOrder) = rest(s.playerOrder)
                    /\ Len(rest(t.playerOrder)) = Len(t.playerOrder) - 1
               ELSE /\ t.playerOrder = s.playerOrder
                    /\ t.currentPlayer
                         = (IF Len(s.playerOrder) > 0 THEN s.playerOrder[1] ELSE NoPlayer)

\* playAgain has just run startNewRound in a room of three whose round the
\* current first player of playerOrder had won.
C18_Witness ==
  /\ ev.op = "playAgain"
  /\ store["r1"] # NoState
  /\ ev.bcast = store["r1"]
  /\ Len(store["r1"].playerOrder) = 3
  /\ store["r1"].roundWinner # NoPlayer
  /\ store["r1"].playerOrder[1] = store["r1"].roundWinner
  /\ store["r1"].currentPlayer = store["r1"].roundWinner
  /\ \A x \in DOMAIN store["r1"].scores : store["r1"].scores[x] = 0

C21_RoundEndedIffAllPlayed ==
  \A r \in Rooms :
    (store[r] # NoState /\ Size(store[r].players) >= 1)
      => (store[r].roundEnded
            <=> \A p \in DOMAIN store[r].players :
                  Includes(store[r].playersPlayedThisRound, p))

\* C22: in every stored room record, currentPlayer is null or a key of players.
C22_CurrentPlayerIsPlayer ==
  \A r \in Rooms :
    store[r] # NoState
      => (store[r].currentPlayer = NoPlayer
            \/ store[r].currentPlayer \in DOMAIN store[r].players)

\* C23: in the versions that keep the records in the store, in every stored room
\* record playersPlayedThisRound holds no id twice and every id in it is a key
\* of players.
C23_PlayedAreDistinctPlayers ==
  \A r \in Rooms :
    (variant # "memory" /\ store[r] # NoState)
      => LET played == store[r].playersPlayedThisRound
         IN  /\ \A i, j \in 1..Len(played) : played[i] = played[j] => i = j
             /\ \A i \in 1..Len(played) : played[i] \in DOMAIN store[r].players

\* A player has just left a room of three in which the two who stay have both
\* ended their turn this round.
C23_Witness ==
  /\ variant # "memory"
  /\ ev.op = "disconnect"
  /\ ev.outcome = "accepted"
  /\ ev.bcast = store["r1"]
  /\ Size(store["r1"].players) = 2
  /\ Len(store["r1"].playersPlayedThisRound) = 2
  /\ \A i \in 1..2 : store["r1"].playersPlayedThisRound[i] # ev.conn

\* C25: in the versions that keep the records in the store, in every stored room
\* record the ids in playerOrder are the keys of players and the keys of scores,
\* playerOrder holds no id twice, and every key of roundScores is a key of
\* players: a player absent from players is absent from scores, roundScores and
\* playerOrder.
C25_PlayerCollectionsAgree ==
  \A r \in Rooms :
    (variant # "memory" /\ store[r] # NoState)
      => LET order == store[r].playerOrder
         IN  /\ {order[i] : i \in 1..Len(order)} = DOMAIN store[r].players
             /\ DOMAIN store[r].scores = DOMAIN store[r].players
             /\ \A i, j \in 1..Len(order) : order[i] = order[j] => i = j
             /\ DOMAIN store[r].roundScores \subseteq DOMAIN store[r].players

\* The first of three players has just left in the middle of a round: the two
\* who stay keep their places in playerOrder and one has a round score booked.
C25_Witness ==
  /\ variant # "memory"
  /\ ev.op = "disconnect"
  /\ ev.conn = "a"
  /\ ev.bcast = store["r1"]
  /\ ~store["r1"].roundEnded
  /\ Len(store["r1"].playerOrder) = 2
  /\ Len(store["r1"].playersPlayedThisRound) = 1
  /\ DOMAIN store["r1"].roundScores = DOMAIN store["r1"].players

\* C26: whenever currentPlayer changes within a round, by an accepted endTurn of
\* the current player or by the disconnect of the current player while others
\* remain, the new currentPlayer is the id that followed the previous one in
\* playerOrder, wrapping from the last entry to the first.
C26_RotationFollowsOrder ==
  [][\A c \in Conns :
       LET roomId == sock[c].roomId
           before == getGameState(roomId)
           after == store'[roomId]
           order == before.playerOrder
       IN  (/\ sock[c].open
            /\ roomId # NoRoom
            /\ before # NoState
            /\ before.currentPlayer = c
            /\ ~before.roundEnded
            /\ Includes(order, c)
            /\ EndTurn(c, MaxScore) \/ Disconnect(c)
            /\ after # NoState
            /\ Size(after.players) > 0
            /\ after.currentPlayer # c)
           => after.currentPlayer = order[((IndexOf(order, c) + 1) % Len(order)) + 1]]_vars

\* C27: within a round no player has endTurn accepted more than once: while
\* roundEnded is false, the endTurn of a player who is already listed in
\* playersPlayedThisRound (the ids whose endTurn was accepted since the round
\* started) is not accepted.
C27_OneTurnPerRound ==
  [][\A c \in Conns :
       LET roomId == sock[c].roomId
           before == getGameState(roomId)
       IN  (/\ sock[c].open
            /\ roomId # NoRoom
            /\ before # NoState
            /\ before.currentPlayer = c
            /\ ~before.roundEnded
            /\ EndTurn(c, MaxScore)
            /\ ev'.wrote)
           => ~Includes(before.playersPlayedThisRound, c)]_vars

\* C30: every turn starts from a clean turn state: a step that gives a room a
\* new, non-null currentPlayer (the first join, the advance of endTurn, the
\* disconnect of the current player, the start of a new round) leaves the record
\* with dice all 0, keptDice all false, rollCount 0, turnScore 0 and mustKeepDie
\* false.
C30_TurnStartsClean ==
  [][\A r \in Rooms :
       LET previous == IF store[r] = NoState THEN NoPlayer ELSE store[r].currentPlayer
           after == store'[r]
       IN  (/\ after # NoState
            /\ after.currentPlayer # NoPlayer
            /\ after.currentPlayer # previous)
           => /\ \A i \in DiceIdx : after.dice[i] = 0 /\ ~after.keptDice[i]
              /\ after.rollCount = 0
              /\ after.turnScore = 0
              /\ ~after.mustKeepDie]_vars

\* An endTurn that booked 6 points from kept dice has just passed the turn on.
C30_Witness ==
  /\ ev.op = "endTurn"
  /\ ev.wrote
  /\ ev.bcast = store["r1"]
  /\ ~store["r1"].roundEnded
  /\ store["r1"].currentPlayer \notin {ev.conn, NoPlayer}
  /\ store["r1"].roundScores[ev.conn] = 6
  /\ store["r1"].rollCount = 0

\* C31: a joinRoom that succeeds while currentPlayer is already set does not
\* disturb the turn in progress: currentPlayer, dice, keptDice, rollCount,
\* mustKeepDie, isRolling, playersPlayedThisRound, roundEnded, roundWinner and
\* the players, scores and roundScores entries of every other player stay as
\* they were.
C31_JoinLeavesTurnAlone ==
  [][\A c \in Conns :
       LET before == store["r1"]
           after == store'["r1"]
           others(m) == [x \in (DOMAIN m) \ {c} |-> m[x]]
       IN  (/\ before # NoState
            /\ before.currentPlayer # NoPlayer
            /\ JoinRoom(c, "r1", NameSent(c))
            /\ ev'.wrote)
           => /\ after.currentPlayer = before.currentPlayer
              /\ after.dice = before.dice
              /\ after.keptDice = before.keptDice
              /\ after.rollCount = before.rollCount
              /\ after.mustKeepDie = before.mustKeepDie
              /\ after.isRolling = before.isRolling
              /\ after.playersPlayedThisRound = before.playersPlayedThisRound
              /\ after.roundEnded = before.roundEnded
              /\ after.roundWinner = before.roundWinner
              /\ others(after.players) = others(before.players)
              /\ others(after.scores) = others(before.scores)
              /\ others(after.roundScores) = others(before.roundScores)]_vars

\* A player has just joined a room whose turn holder has rolled and kept a die.
C31_Witness ==
  /\ ev.op = "joinRoom"
  /\ ev.bcast = store["r1"]
  /\ store["r1"].currentPlayer \notin {ev.conn, NoPlayer}
  /\ store["r1"].rollCount = 1
  /\ \E i \in DiceIdx : store["r1"].keptDice[i]

\* C34: a room with at least one player always has a turn holder: in every
\* stored record whose players is not empty currentPlayer is not null, and
\* getNextPlayer finds a next player there, so that endTurn's branch for a
\* missing next player is never taken.
C34_PlayersHaveTurnHolder ==
  \A r \in Rooms :
    (store[r] # NoState /\ Size(store[r].players) > 0)
      => /\ store[r].currentPlayer # NoPlayer
         /\ getNextPlayer(store[r]) # NoPlayer

\* a has left while its roll was still pending, and the turn is with one of
\* the two players who stay.
C34_Witness ==
  /\ ev.op = "disconnect"
  /\ ev.conn = "a"
  /\ timers["a"]["r1"] > 0
  /\ store["r1"] # NoState
  /\ ev.bcast = store["r1"]
  /\ Size(store["r1"].players) = 2
  /\ store["r1"].currentPlayer \in DOMAIN store["r1"].players

\* C35: once roundEnded is true the round's result is frozen until playAgain:
\* rollDice (its completion included), keepDice and endTurn from any connection,
\* the current player included, leave scores, roundScores, roundWinner,
\* playersPlayedThisRound, dice and rollCount as they are.
C35_RoundResultFrozen ==
  [][\A c \in Conns :
       LET before == store["r1"]
           after == store'["r1"]
       IN  (/\ before # NoState
            /\ before.roundEnded
            /\ \/ RollDice(c, MaxRolls)
               \/ RollComplete(c, "r1", RollA)
               \/ \E index \in KeepInputs : KeepDice(c, index)
               \/ EndTurn(c, MaxScore))
           => /\ after.scores = before.scores
              /\ after.roundScores = before.roundScores
              /\ after.roundWinner = before.roundWinner
              /\ after.playersPlayedThisRound = before.playersPlayedThisRound
              /\ after.dice = before.dice
              /\ after.rollCount = before.rollCount]_vars

\* C36: a new turn never starts in the rolling state: whenever currentPlayer
\* changes to another player (the advance of endTurn, the disconnect of the turn
\* holder) or playAgain starts a new round, isRolling is false in the record
\* that results.
C36_TurnStartsNotRolling ==
  [][\A r \in Rooms :
       LET before == store[r]
           after == store'[r]
       IN  (/\ before # NoState
            /\ after # NoState
            /\ \/ after.currentPlayer \notin {before.currentPlayer, NoPlayer}
               \/ \E c \in Conns : sock[c].roomId = r /\ before.roundEnded /\ PlayAgain(c))
           => ~after.isRolling]_vars

\* C37: a roll is committed only into the turn in which its rollDice was
\* accepted.  Stated for the case in which the end of that turn is the latest
\* handler run before the completion: when the roller's accepted endTurn, or a
\* playAgain, came after the rollDice and the completion runs next, it changes
\* no dice, rollCount or mustKeepDie, also when the roller is currentPlayer.
C37_RollStaysInItsTurn ==
  [][\A c \in Conns :
       LET before == store["r1"]
           after == store'["r1"]
       IN  (/\ before # NoState
            /\ ev.room = "r1"
            /\ \/ ev.op = "endTurn" /\ ev.conn = c /\ ev.wrote
               \/ ev.op = "playAgain"
            /\ RollComplete(c, "r1", RollA))
           => /\ after # NoState
              /\ after.dice = before.dice
              /\ after.rollCount = before.rollCount
              /\ after.mustKeepDie = before.mustKeepDie]_vars

(***************************************************************************)
(* Properties of SpecTurn: rolling, keeping and scoring within a turn.     *)
(***************************************************************************)

\* C4: the turn score endTurn records is 0 when no kept die shows 1 or no kept
\* die shows 4, and otherwise the sum of the kept dice minus one 1 and one 4, so
\* that a second kept 1 or 4 counts.
C4_TurnScoreDropsOneOneAndOneFour ==
  [][\A c \in TurnConns :
       LET roomId == sock[c].roomId
           roomState == getGameState(roomId)
           noOne == ~\E i \in DiceIdx : roomState.keptDice[i] /\ roomState.dice[i] = 1
           noFour == ~\E i \in DiceIdx : roomState.keptDice[i] /\ roomState.dice[i] = 4
       IN  (/\ sock[c].open
            /\ roomId # NoRoom
            /\ roomState # NoState
            /\ roomState.currentPlayer = c
            /\ EndTurn(c, TurnMaxScore)
            /\ ev'.wrote)
           => store'[roomId].roundScores[c]
                = IF noOne \/ noFour
                    THEN 0
                    ELSE calculateTurnScore(roomState.dice, roomState.keptDice)]_vars

\* C6: rollDice from currentPlayer changes nothing (no write, no broadcast, no
\* completion scheduled) when mustKeepDie is set or when all six dice are kept
\* and rollCount > 0; with rollCount = 0 it is accepted: isRolling is saved and
\* broadcast and the completion is scheduled.
C6_RollRefusedOrAccepted ==
  [][\A c \in TurnConns :
       LET roomId == sock[c].roomId
           roomState == getGameState(roomId)
       IN  (/\ sock[c].open
            /\ roomId # NoRoom
            /\ roomState # NoState
            /\ roomState.currentPlayer = c
            /\ RollDice(c, TurnMaxRolls))
           => /\ (\/ roomState.mustKeepDie
                  \/ (roomState.rollCount > 0 /\ \A i \in DiceIdx : roomState.keptDice[i]))
                 => (store' = store /\ timers' = timers /\ ev' = ev)
              /\ roomState.rollCount = 0
                 => /\ store'[roomId].isRolling
                    /\ timers'[c][roomId] = timers[c][roomId] + 1
                    /\ ev'.wrote
                    /\ ev'.bcast = store'[roomId]]_vars

\* The first roll (rollCount 0, nothing kept) went through and the turn holder
\* has since kept all six dice, with rolls left to ask for.
C6_Witness ==
  /\ store["r1"].currentPlayer = "a"
  /\ store["r1"].rollCount > 0
  /\ store["r1"].rollCount < TurnMaxRolls
  /\ ~store["r1"].mustKeepDie
  /\ \A i \in DiceIdx : store["r1"].keptDice[i]

\* C7: an accepted rollDice first saves and broadcasts the state with isRolling
\* set and nothing else changed; the commit of its completion gives every die
\* that is not kept a value in 1..6, leaves kept dice and keptDice alone, adds 1
\* to rollCount, sets mustKeepDie and clears isRolling.
C7_RollInTwoPhases ==
  [][/\ \A c \in TurnConns :
          LET roomId == sock[c].roomId
              roomState == getGameState(roomId)
          IN  (/\ sock[c].open
               /\ roomId # NoRoom
               /\ roomState # NoState
               /\ RollDice(c, TurnMaxRolls)
               /\ timers' # timers)
              => /\ store'[roomId] = [roomState EXCEPT !.isRolling = TRUE]
                 /\ ev'.wrote
                 /\ ev'.bcast = store'[roomId]
     /\ \A c \in TurnConns :
          LET before == store["r1"]
              after == store'["r1"]
          IN  (timers'[c]["r1"] < timers[c]["r1"] /\ store' # store)
              => /\ \A i \in DiceIdx : ~before.keptDice[i] => after.dice[i] \in 1..6
                 /\ \A i \in DiceIdx : before.keptDice[i] => after.dice[i] = before.dice[i]
                 /\ after.keptDice = before.keptDice
                 /\ after.rollCount = before.rollCount + 1
                 /\ after.mustKeepDie
                 /\ ~after.isRolling
                 /\ ev'.wrote
                 /\ ev'.bcast = after]_vars

\* The second roll of a turn has just been committed around a kept die.
C7_Witness ==
  /\ ev.op = "rollComplete"
  /\ ev.outcome = "accepted"
  /\ ev.bcast = store["r1"]
  /\ store["r1"].rollCount = 2
  /\ \E i \in DiceIdx : store["r1"].keptDice[i]

\* C9: after a roll has been committed, a rollDice of the turn holder can only
\* be accepted again (mustKeepDie clear and a die left to roll) once a die that
\* this latest roll rolled has been kept; toggling dice kept from earlier rolls
\* does not re-enable rolling.
C9_RollNeedsNewlyKeptDie ==
  \A r \in Rooms :
    LET roomState == store[r]
    IN  (/\ roomState # NoState
         /\ roomState.rollCount > 0
         /\ ~roomState.mustKeepDie
         /\ canRollAnyDice(roomState))
        => hist[r].keptNew

\* C10: an accepted keepDice(index) flips keptDice[index] and no other kept flag
\* or die; mustKeepDie becomes false when the die is now kept, true when it is
\* now un-kept and no die is kept, and stays as it was otherwise; the result is
\* saved and broadcast.
C10_KeepTogglesOneDie ==
  [][\A c \in TurnConns, index \in 0..(NumDice - 1) :
       LET roomId == sock[c].roomId
           roomState == getGameState(roomId)
           after == store'[roomId]
       IN  (/\ sock[c].open
            /\ roomId # NoRoom
            /\ roomState # NoState
            /\ roomState.currentPlayer = c
            /\ roomState.rollCount > 0
            /\ roomState.dice[index + 1] # 0
            /\ KeepDice(c, index))
           => /\ after.keptDice[index + 1] = ~roomState.keptDice[index + 1]
              /\ \A j \in DiceIdx \ {index + 1} : after.keptDice[j] = roomState.keptDice[j]
              /\ after.dice = roomState.dice
              /\ after.mustKeepDie
                   = (IF after.keptDice[index + 1]
                        THEN FALSE
                        ELSE IF \A j \in DiceIdx : ~after.keptDice[j]
                               THEN TRUE
                               ELSE roomState.mustKeepDie)
              /\ ev'.wrote
              /\ ev'.bcast = after]_vars

\* keepDice has just been served after the second roll of a turn, a die this
\* roll rolled has been kept since, and exactly one die is kept now.
C10_Witness ==
  /\ ev.op = "keepDice"
  /\ ev.outcome = "accepted"
  /\ ev.bcast = store["r1"]
  /\ ~store["r1"].mustKeepDie
  /\ Cardinality({i \in DiceIdx : store["r1"].keptDice[i]}) = 1
  /\ hist["r1"].keptNew
  /\ store["r1"].rollCount = 2

\* C11: keepDice(index) from currentPlayer changes nothing (record unchanged, no
\* write, no broadcast) when rollCount is 0, when index is outside 0..5, or when
\* dice[index] is 0.
C11_KeepRefused ==
  [][\A c \in TurnConns, index \in TurnKeepInputs :
       LET roomId == sock[c].roomId
           roomState == getGameState(roomId)
       IN  (/\ sock[c].open
            /\ roomId # NoRoom
            /\ roomState # NoState
            /\ roomState.currentPlayer = c
            /\ KeepDice(c, index)
            /\ \/ roomState.rollCount = 0
               \/ index \notin 0..5
               \/ roomState.dice[index + 1] = 0)
           => (store' = store /\ timers' = timers /\ ev' = ev)]_vars

\* The turn holder has rolled (so keepDice is served for the indexes 0..5, and
\* an index of -1 or 6 is refused on the range check alone); before that roll the
\* same player sat at rollCount 0 with six unrolled dice.
C11_Witness ==
  /\ store["r1"].currentPlayer \in TurnConns
  /\ store["r1"].rollCount = 1
  /\ store["r1"].mustKeepDie
  /\ \A i \in DiceIdx : store["r1"].dice[i] # 0 /\ ~store["r1"].keptDice[i]

\* C12: in every state in which keepDice(index) is accepted, two keepDice(index)
\* in a row give keptDice[index] back its value and mustKeepDie the value it had
\* before the first of them.
C12_KeepTwiceRestores ==
  \A index \in 0..(NumDice - 1) :
    LET roomState == store["r1"]
        twice == toggled(toggled(roomState, index), index)
    IN  (/\ roomState # NoState
         /\ roomState.currentPlayer \in TurnConns
         /\ ~keepRefused(roomState, index)
         /\ ~keepRefused(toggled(roomState, index), index))
        => /\ twice.keptDice[index + 1] = roomState.keptDice[index + 1]
           /\ twice.mustKeepDie = roomState.mustKeepDie

\* C24: in every stored room record dice and keptDice have exactly 6 entries
\* each, every die shows a value in 0..6 and every kept flag is a boolean.
C24_SixDice ==
  \A r \in Rooms :
    store[r] # NoState
      => /\ DOMAIN store[r].dice = 1..6
         /\ DOMAIN store[r].keptDice = 1..6
         /\ \A i \in 1..6 : store[r].dice[i] \in 0..6
         /\ \A i \in 1..6 : store[r].keptDice[i] \in BOOLEAN

\* Two rolls have been committed and the turn holder has kept all six dice, a 6
\* among them.
C24_Witness ==
  /\ ev.op = "keepDice"
  /\ ev.bcast = store["r1"]
  /\ store["r1"].rollCount = 2
  /\ \A i \in DiceIdx : store["r1"].keptDice[i] /\ store["r1"].dice[i] # 0
  /\ \E i \in DiceIdx : store["r1"].dice[i] = 6

\* C39: in every stored room record, rollCount = 0 implies that all six dice
\* are 0, no die is kept and mustKeepDie is false; rollCount >= 1 implies that
\* all six dice are in 1..6, so a kept die never has the value 0.
C39_DiceMatchRollCount ==
  \A r \in Rooms :
    (store[r] # NoState /\ store[r] # Unparseable) =>
      LET s == store[r]
      IN  /\ s.rollCount = 0 =>
               /\ \A i \in DiceIdx : s.dice[i] = 0 /\ ~s.keptDice[i]
               /\ ~s.mustKeepDie
          /\ s.rollCount >= 1 => \A i \in DiceIdx : s.dice[i] \in 1..6
          /\ \A i \in DiceIdx : s.keptDice[i] => s.dice[i] # 0

\* A second roll has landed around a die kept from the first, and the player
\* has kept a die again since.
C39_Witness ==
  \E r \in Rooms :
    /\ store[r] # NoState
    /\ store[r].rollCount = 2
    /\ \E i \in DiceIdx : store[r].keptDice[i]
    /\ \E i \in DiceIdx : ~store[r].keptDice[i]
    /\ ~store[r].mustKeepDie

(***************************************************************************)
(* Properties of SpecRooms: joining, joining again, leaving.               *)
(***************************************************************************)

\* C13: after a successful joinRoom by c, players[c] exists; scores[c] and
\* roundScores[c] exist, 0 if they were absent and unchanged otherwise; c is in
\* playerOrder exactly once, appended if it was absent and where it was
\* otherwise; and if currentPlayer was null, currentPlayer = c with dice all 0,
\* keptDice all false, rollCount 0 and mustKeepDie false.
C13_JoinAddsPlayer ==
  [][\A c \in RoomConns, r \in Rooms :
       LET before == IF store[r] = NoState THEN createInitialGameState ELSE store[r]
           after == store'[r]
       IN  (/\ JoinRoom(c, r, NameSent(c))
            /\ ev'.wrote)
           => /\ c \in DOMAIN after.players
              /\ c \in DOMAIN after.scores
              /\ after.scores[c]
                   = (IF c \in DOMAIN before.scores THEN before.scores[c] ELSE 0)
              /\ c \in DOMAIN after.roundScores
              /\ after.roundScores[c]
                   = (IF c \in DOMAIN before.roundScores THEN before.roundScores[c] ELSE 0)
              /\ Cardinality({i \in 1..Len(after.playerOrder) : after.playerOrder[i] = c}) = 1
              /\ after.playerOrder
                   = (IF \E i \in 1..Len(before.playerOrder) : before.playerOrder[i] = c
                        THEN before.playerOrder
                        ELSE before.playerOrder \o <<c>>)
              /\ before.currentPlayer = NoPlayer
                 => /\ after.currentPlayer = c
                    /\ \A i \in DiceIdx : after.dice[i] = 0 /\ ~after.keptDice[i]
                    /\ after.rollCount = 0
                    /\ ~after.mustKeepDie]_vars

\* a, 6 points up in r1, has been to r2 and has just joined r1 again.
C13_Witness ==
  /\ ev.op = "joinRoom"
  /\ ev.conn = "a"
  /\ ev.room = "r1"
  /\ "r2" \in sock["a"].rooms
  /\ store["r1"] # NoState
  /\ ev.bcast = store["r1"]
  /\ store["r1"].scores["a"] = 6
  /\ store["r1"].playerOrder = <<"a", "b">>

\* C19: a connection is bound to at most one room for its whole life: at every
\* moment its id is a key of players in at most one room record, also after it
\* has sent joinRoom a second time with another roomId.
C19_PlayerOfOneRoom ==
  \A c \in Conns :
    Cardinality({r \in Rooms : store[r] # NoState /\ c \in DOMAIN store[r].players}) <= 1

(***************************************************************************)
(* Properties of SpecHelpers: the next player and the winner of a round.   *)
(***************************************************************************)

C29_WinnerIsStrictMaximum ==
  ev.op = "determineRoundWinner" =>
    LET roundScores == store[ev.room].roundScores
        best == {p \in DOMAIN roundScores :
                   \A q \in (DOMAIN roundScores) \ {p} : roundScores[p] > roundScores[q]}
    IN  /\ \A p \in best : ev.outcome = p
        /\ best = {} => ev.outcome = NoPlayer

\* Two of three players share the highest round score and no winner is named.
C29_Witness ==
  /\ ev.op = "determineRoundWinner"
  /\ DOMAIN store["r1"].roundScores = {"a", "b", "c"}
  /\ store["r1"].roundScores["a"] = 1
  /\ store["r1"].roundScores["b"] = 2
  /\ store["r1"].roundScores["c"] = 2
  /\ ev.outcome = NoPlayer

(***************************************************************************)
(* Properties of SpecFaults: reads that fail.                              *)
(***************************************************************************)

\* C32: a read that fails or returns data that does not parse makes the handler
\* stop without a write: no handler run, joinRoom after its retries included,
\* replaces or deletes a record that it could not read.
C32_FailedReadWritesNothing ==
  [][\A r \in Rooms : store[r] = Unparseable => store'[r] = Unparseable]_vars

(***************************************************************************)
(* Properties of SpecRace: handlers between a read and its save.           *)
(***************************************************************************)

\* C33: handlers of one room do not exclude each other between their read and
\* their save: when a keepDice resumes and saves, the record it persists and
\* broadcasts is the one it read, toggled, whatever other handlers have written
\* to the room since; what an endTurn or a disconnect accepted in between is
\* then missing from the stored record.
C33_StaleSaveOverwrites ==
  [][\A c \in TurnConns :
       (held[c] # NoRead /\ KeepDiceWrite(c))
         => /\ store'[held[c].roomId] = toggled(held[c].roomState, held[c].index)
            /\ ev'.bcast = store'[held[c].roomId]]_vars

\* b's disconnect was processed between the read and the save of a's keepDice:
\* b has left, and the record a's keepDice saved lists b as a player again.
C33_Witness ==
  /\ ev.op = "keepDice"
  /\ ev.conn = "a"
  /\ ~sock["b"].open
  /\ ev.bcast = store["r1"]
  /\ "b" \in DOMAIN store["r1"].players
  /\ Includes(store["r1"].playerOrder, "b")

(***************************************************************************)
(* Properties of SpecJoin: leaving while the join is under way.            *)
(***************************************************************************)

\* C38: no ghost players: once a connection has disconnected and no handler is
\* suspended any more, its id is a key of players in no room record, also when
\* its disconnect was processed while its joinRoom was waiting on the store.
C38_NoGhostPlayers ==
  \A c \in Conns :
    (~sock[c].open /\ \A d \in Conns : held[d] = NoRead)
      => \A r \in Rooms : store[r] # NoState => c \notin DOMAIN store[r].players

(***************************************************************************)
(* Properties of SpecProgress: rounds end.                                 *)
(***************************************************************************)

\* C40: rounds make progress: in a room with at least one player and settled
\* membership, when the player holding the turn always eventually sends endTurn,
\* a round that has not ended eventually ends (roundEnded becomes true).
C40_RoundEventuallyEnds ==
  (Size(store["r1"].players) >= 1 /\ ~store["r1"].roundEnded) ~> store["r1"].roundEnded

====
